---- MODULE Spec2Model ----
(***************************************************************************)
(* AArch64 lifting extension (src/aarch64_extension.cpp).                  *)
(*                                                                         *)
(* Three specifications over one set of variables:                         *)
(*   Spec        one call of the decode-to-IL hook, or of one lifter, on   *)
(*               an IL function that already holds some instructions;      *)
(*   SpecCond    calls of the condition-code translator;                   *)
(*   SpecThreads the per-thread decoding engine, plugin activation and     *)
(*               the hook running on several threads.                      *)
(*                                                                         *)
(* Machine words are sets of bit positions (bit i set <=> i in the set),   *)
(* so 32- and 64-bit values keep their exact width.                        *)
(***************************************************************************)
EXTENDS Integers, Sequences, FiniteSets

VARIABLES il, len, ret, pc, last,      \* Spec
          translated,                  \* SpecCond
          cell, scratch, thr, registered, nextHandle   \* SpecThreads

vars == <<il, len, ret, pc, last, translated,
          cell, scratch, thr, registered, nextHandle>>

liftVars == <<il, len, ret, pc, last>>
condVars == <<translated>>
threadVars == <<cell, scratch, thr, registered, nextHandle>>

\* Number of IL instructions the function may already hold when a call starts.
MaxPrior == 2

(***************************************************************************)
(* Bit vectors                                                             *)
(***************************************************************************)
RECURSIVE Pow2(_)
Pow2(n) == IF n = 0 THEN 1 ELSE 2 * Pow2(n - 1)

\* The bits of a small natural number (immediates are below 2^7 here).
Bits(n) == {i \in 0..7 : (n \div Pow2(i)) % 2 = 1}

\* x << k in an unsigned type of w bits (k < w).
Shl(x, k, w) == {i + k : i \in x} \cap (0..(w - 1))

\* ~x in an unsigned type of w bits.
Not(x, w) == (0..(w - 1)) \ x

\* template <typename T> T Ones(size_t count), T of w bits, count <= w.
Ones(w, count) ==
    IF count = w
    THEN Not({}, w)
    ELSE Not(Shl(Not({}, w), count, w), w)

(***************************************************************************)
(* Condition codes                                                         *)
(***************************************************************************)
\* arm64_cc, in encoding order: CondOrder[c + 1] is the code of cond field c.
CondOrder == <<"EQ", "NE", "HS", "LO", "MI", "PL", "VS", "VC",
               "HI", "LS", "GE", "LT", "GT", "LE", "AL", "NV">>

arm64_cc == {"INVALID"} \cup {CondOrder[i] : i \in 1..16}

\* The standard AArch64 condition-code table the translator is compared with.
StandardCondition(condition) ==
    CASE condition = "EQ" -> "LLFC_E"
      [] condition = "NE" -> "LLFC_NE"
      [] condition = "HS" -> "LLFC_UGE"
      [] condition = "LO" -> "LLFC_ULT"
      [] condition = "MI" -> "LLFC_NEG"
      [] condition = "PL" -> "LLFC_POS"
      [] condition = "VS" -> "LLFC_O"
      [] condition = "VC" -> "LLFC_NO"
      [] condition = "HI" -> "LLFC_UGT"
      [] condition = "LS" -> "LLFC_ULE"
      [] condition = "GE" -> "LLFC_SGE"
      [] condition = "LT" -> "LLFC_SLT"
      [] condition = "GT" -> "LLFC_SGT"
      [] condition = "LE" -> "LLFC_SLE"
      [] condition = "INVALID" -> "(BNLowLevelILFlagCondition) ARM64_CC_INVALID"
      [] condition = "AL" -> "(BNLowLevelILFlagCondition) ARM64_CC_AL"
      [] condition = "NV" -> "(BNLowLevelILFlagCondition) ARM64_CC_NV"
      [] OTHER -> "(BNLowLevelILFlagCondition) -1"

\* static BNLowLevelILFlagCondition LiftCondition(arm64_cc condition).
\* The three casts keep the condition code's own value; they are written as
\* the cast expression, not as a host flag condition.
LiftCondition(condition) ==
    CASE condition = "EQ" -> "LLFC_E"
      [] condition = "NE" -> "LLFC_NE"
      [] condition = "HS" -> "LLFC_UGE"
      [] condition = "LO" -> "LLFC_ULE"
      [] condition = "MI" -> "LLFC_NEG"
      [] condition = "PL" -> "LLFC_POS"
      [] condition = "VS" -> "LLFC_O"
      [] condition = "VC" -> "LLFC_NO"
      [] condition = "HI" -> "LLFC_UGE"
      [] condition = "LS" -> "LLFC_ULE"
      [] condition = "GE" -> "LLFC_SGE"
      [] condition = "LT" -> "LLFC_SLT"
      [] condition = "GT" -> "LLFC_SGT"
      [] condition = "LE" -> "LLFC_SLE"
      [] condition = "INVALID" -> "(BNLowLevelILFlagCondition) ARM64_CC_INVALID"
      [] condition = "AL" -> "(BNLowLevelILFlagCondition) ARM64_CC_AL"
      [] condition = "NV" -> "(BNLowLevelILFlagCondition) ARM64_CC_NV"
      [] OTHER -> "(BNLowLevelILFlagCondition) -1"

(***************************************************************************)
(* Registers: the decoder's register identifiers, their names, and the     *)
(* host's catalog (name -> id, id -> width in bytes).                      *)
(***************************************************************************)
\* cs_reg_name(handle, reg)
cs_reg_name(reg) ==
    CASE reg = "ARM64_REG_W0" -> "w0"
      [] reg = "ARM64_REG_W1" -> "w1"
      [] reg = "ARM64_REG_WZR" -> "wzr"
      [] reg = "ARM64_REG_X0" -> "x0"
      [] reg = "ARM64_REG_X1" -> "x1"
      [] reg = "ARM64_REG_XZR" -> "xzr"
      [] reg = "ARM64_REG_H2" -> "h2"

\* m_base->GetRegisterByName(name): the host's register id.
GetRegisterByName(name) ==
    CASE name = "w0" -> 1
      [] name = "w1" -> 2
      [] name = "wzr" -> 3
      [] name = "x0" -> 4
      [] name = "x1" -> 5
      [] name = "xzr" -> 6
      [] name = "h2" -> 7

\* m_base->GetRegisterInfo(id).size
GetRegisterInfoSize(id) ==
    CASE id \in {1, 2, 3} -> 4
      [] id \in {4, 5, 6} -> 8
      [] id = 7 -> 2

RegOf(reg) == GetRegisterByName(cs_reg_name(reg))

(***************************************************************************)
(* The host's IL builder.  An IL function is its instruction list, the     *)
(* labels marked so far (name and instruction index) and the number of     *)
(* expressions allocated; an expression id is the number of expressions    *)
(* allocated before it.                                                    *)
(***************************************************************************)
Register(size, reg) == [op |-> "Register", size |-> size, reg |-> reg]
Const(size, value) == [op |-> "Const", size |-> size, value |-> value]
SetRegister(size, reg, val) ==
    [op |-> "SetRegister", size |-> size, dest |-> reg, src |-> val]
Add(size, a, b) == [op |-> "Add", size |-> size, left |-> a, right |-> b]
Mult(size, a, b) == [op |-> "Mult", size |-> size, left |-> a, right |-> b]
And(size, a, b) == [op |-> "And", size |-> size, left |-> a, right |-> b]
Or(size, a, b) == [op |-> "Or", size |-> size, left |-> a, right |-> b]
ShiftLeft(size, a, b) ==
    [op |-> "ShiftLeft", size |-> size, left |-> a, right |-> b]
RotateRight(size, a, b) ==
    [op |-> "RotateRight", size |-> size, left |-> a, right |-> b]
FlagCondition(cond) == [op |-> "FlagCondition", cond |-> cond]
If(cond, t, f) == [op |-> "If", cond |-> cond, t |-> t, f |-> f]
Goto(label) == [op |-> "Goto", label |-> label]

\* Expressions allocated by building the tree e.
RECURSIVE ExprCount(_)
ExprCount(e) ==
    CASE e.op \in {"Register", "Const", "Goto", "Prior", "Base", "Undefined"} -> 1
      [] e.op = "SetRegister" -> 1 + ExprCount(e.src)
      [] e.op = "FlagCondition" -> 1
      [] e.op = "If" -> 1 + ExprCount(e.cond)
      [] OTHER -> 1 + ExprCount(e.left) + ExprCount(e.right)

\* il.AddInstruction(e), e built just before.
AddInstruction(f, e) ==
    [f EXCEPT !.instrs = Append(@, e), !.nexpr = @ + ExprCount(e)]

\* il.MarkLabel(label)
MarkLabel(f, label) ==
    [f EXCEPT !.labels = @ \cup {[name |-> label, at |-> Len(f.instrs)]}]

\* An expression built and never attached to an instruction.
Orphan(f, e) == [f EXCEPT !.nexpr = @ + ExprCount(e)]

Reject(f) == [ok |-> FALSE, il |-> f]
Accept(f) == [ok |-> TRUE, il |-> f]

(***************************************************************************)
(* Decoded instructions (cs_insn with detail).  operands[i] of the code is *)
(* operands[i + 1] here.                                                   *)
(***************************************************************************)
RegOp(reg) == [type |-> "ARM64_OP_REG", reg |-> reg, imm |-> 0]
ImmOp(imm) == [type |-> "ARM64_OP_IMM", reg |-> "ARM64_REG_INVALID", imm |-> imm]
FpOp == [type |-> "ARM64_OP_FP", reg |-> "ARM64_REG_INVALID", imm |-> 0]

Insn(id, ops, cc) ==
    [id |-> id, size |-> 4, op_count |-> Len(ops), operands |-> ops, cc |-> cc]

Unconditional(cc) == cc = "AL" \/ cc = "NV"

(***************************************************************************)
(* The five lifters.  Each returns [ok, il]: its boolean result and the IL *)
(* function as it leaves it.                                               *)
(***************************************************************************)
\* bool LiftCSINC(cs_insn* instr, LowLevelILFunction& il).
\* In the unconditional form the destination argument of SetRegister is the
\* expression id of il.Register(Rd_size, Rd); the two argument expressions
\* are built in either order (ord = 0: the destination's first).
LiftCSINC(instr, f, ord) ==
    IF instr.op_count # 3 THEN Reject(f)
    ELSE
    LET Rd == RegOf(instr.operands[1].reg)
        Rn == RegOf(instr.operands[2].reg)
        Rm == RegOf(instr.operands[3].reg)
        Rd_size == GetRegisterInfoSize(Rd)
        Rn_size == GetRegisterInfoSize(Rn)
        Rm_size == GetRegisterInfoSize(Rm)
    IN  IF instr.cc = "INVALID" \/ (Rd_size # Rn_size /\ Rn_size # Rm_size)
        THEN Reject(f)
        ELSE IF Unconditional(instr.cc)
        THEN LET destExpr == f.nexpr + ord
                 f1 == Orphan(f, Register(Rd_size, Rd))
             IN  Accept(AddInstruction(f1,
                     SetRegister(Rd_size, destExpr, Register(Rn_size, Rn))))
        ELSE LET f1 == AddInstruction(f,
                         If(FlagCondition(LiftCondition(instr.cc)),
                            "assignmentLabel", "incrementLabel"))
                 f2 == MarkLabel(f1, "assignmentLabel")
                 f3 == AddInstruction(f2,
                         SetRegister(Rd_size, Rd, Register(Rn_size, Rn)))
                 f4 == AddInstruction(f3, Goto("afterLabel"))
                 f5 == MarkLabel(f4, "incrementLabel")
                 f6 == AddInstruction(f5,
                         SetRegister(Rd_size, Rd,
                             Add(Rd_size, Register(Rm_size, Rm),
                                 Const(Rd_size, Bits(1)))))
                 f7 == MarkLabel(f6, "afterLabel")
             IN  Accept(f7)

\* bool LiftUMULL(cs_insn* instr, LowLevelILFunction& il)
LiftUMULL(instr, f) ==
    IF instr.op_count # 3 THEN Reject(f)
    ELSE
    LET Xd == RegOf(instr.operands[1].reg)
        Wn == RegOf(instr.operands[2].reg)
        Wm == RegOf(instr.operands[3].reg)
    IN  Accept(AddInstruction(f,
            SetRegister(8, Xd, Mult(8, Register(4, Wn), Register(4, Wm)))))

\* A conditional-increment lifter that emits its branch before it looks at
\* the condition code.
LiftCINCEmitsThenRejects(instr, f) ==
    IF instr.op_count # 2 THEN Reject(f)
    ELSE
    LET f1 == AddInstruction(f,
                If(FlagCondition(LiftCondition(instr.cc)),
                   "incrementLabel", "assignmentLabel"))
    IN  IF instr.cc = "INVALID" THEN Reject(f1) ELSE Accept(f1)

\* bool LiftCINC(cs_insn* instr, LowLevelILFunction& il)
LiftCINC(instr, f) ==
    IF instr.op_count # 2 THEN Reject(f)
    ELSE
    LET Rd == RegOf(instr.operands[1].reg)
        Rn == RegOf(instr.operands[2].reg)
        Rd_size == GetRegisterInfoSize(Rd)
        Rn_size == GetRegisterInfoSize(Rn)
        increment == SetRegister(Rd_size, Rd,
                         Add(Rd_size, Register(Rn_size, Rn),
                             Const(Rd_size, Bits(1))))
    IN  IF instr.cc = "INVALID" THEN Reject(f)
        ELSE IF Unconditional(instr.cc)
        THEN Accept(AddInstruction(f, increment))
        ELSE LET f1 == AddInstruction(f,
                         If(FlagCondition(LiftCondition(instr.cc)),
                            "incrementLabel", "assignmentLabel"))
                 f2 == MarkLabel(f1, "incrementLabel")
                 f3 == AddInstruction(f2, increment)
                 f4 == AddInstruction(f3, Goto("afterLabel"))
                 f5 == MarkLabel(f4, "assignmentLabel")
                 f6 == AddInstruction(f5,
                         SetRegister(Rd_size, Rd, Register(Rn_size, Rn)))
                 f7 == MarkLabel(f6, "afterLabel")
             IN  Accept(f7)

\* bool LiftBFI(cs_insn* instr, LowLevelILFunction& il).
\* Rn_size is read from Rd's catalog entry.  The mask is computed in 64 bits
\* for an 8-byte Rd and in 32 bits otherwise, then held in a uint64_t, where
\* it is complemented.
LiftBFI(instr, f) ==
    IF instr.op_count # 4 THEN Reject(f)
    ELSE
    LET Rd == RegOf(instr.operands[1].reg)
        Rn == RegOf(instr.operands[2].reg)
        Rd_size == GetRegisterInfoSize(Rd)
        Rn_size == GetRegisterInfoSize(Rd)
        lsb == instr.operands[3].imm
        width == instr.operands[4].imm
    IN  IF Rd_size # Rn_size /\ ~((Rd_size = 4) # (Rd_size = 8))
        THEN Reject(f)
        ELSE
        LET inclusion_mask ==
                IF Rd_size = 8
                THEN Shl(Ones(64, width), lsb, 64)
                ELSE Shl(Ones(32, width), lsb, 32)
            left == And(Rd_size, Register(Rd_size, Rd),
                        Const(Rd_size, Not(inclusion_mask, 64)))
            right == And(Rd_size,
                         ShiftLeft(Rd_size, Register(Rd_size, Rn),
                                   Const(1, Bits(lsb))),
                         Const(Rd_size, inclusion_mask))
        IN  Accept(AddInstruction(f,
                SetRegister(Rd_size, Rd, Or(Rd_size, left, right))))

\* bool LiftROR(cs_insn* instr, LowLevelILFunction& il).
\* Rn_size is read from Rd's catalog entry.
LiftROR(instr, f) ==
    IF instr.op_count # 3 THEN Reject(f)
    ELSE
    LET Rd == RegOf(instr.operands[1].reg)
        Rn == RegOf(instr.operands[2].reg)
        Rd_size == GetRegisterInfoSize(Rd)
        Rn_size == GetRegisterInfoSize(Rd)
    IN  IF Rd_size # Rn_size THEN Reject(f)
        ELSE IF instr.operands[3].type = "ARM64_OP_REG"
        THEN LET Rm == RegOf(instr.operands[3].reg)
             IN  Accept(AddInstruction(f,
                     SetRegister(Rd_size, Rd,
                         RotateRight(Rd_size, Register(Rd_size, Rn),
                                     Register(Rd_size, Rm)))))
        ELSE IF instr.operands[3].type = "ARM64_OP_IMM"
        THEN LET shift == instr.operands[3].imm
             IN  Accept(AddInstruction(f,
                     SetRegister(Rd_size, Rd,
                         RotateRight(Rd_size, Register(Rd_size, Rn),
                                     Const(Rd_size, Bits(shift))))))
        ELSE Reject(f)

(***************************************************************************)
(* The decoder (cs_disasm in ARM64 mode with detail on).  An instruction   *)
(* word is given by its encoding fields; decoding resolves the aliases the *)
(* decoder reports as mnemonics of their own.                              *)
(***************************************************************************)
Word(cls, sf, rd, rn, rm, cond, immr, imms, ra) ==
    [cls |-> cls, sf |-> sf, rd |-> rd, rn |-> rn, rm |-> rm,
     cond |-> cond, immr |-> immr, imms |-> imms, ra |-> ra]

GPR(sf, n) ==
    CASE sf = 0 /\ n = 0 -> "ARM64_REG_W0"
      [] sf = 0 /\ n = 1 -> "ARM64_REG_W1"
      [] sf = 0 /\ n = 31 -> "ARM64_REG_WZR"
      [] sf = 1 /\ n = 0 -> "ARM64_REG_X0"
      [] sf = 1 /\ n = 1 -> "ARM64_REG_X1"
      [] sf = 1 /\ n = 31 -> "ARM64_REG_XZR"

RegBits(sf) == IF sf = 1 THEN 64 ELSE 32

\* The condition code of cond field c, and of its inverse (low bit flipped).
CondOf(c) == CondOrder[c + 1]
InvCondOf(c) == IF c % 2 = 0 THEN CondOrder[c + 2] ELSE CondOrder[c]

NoInsn == Insn("ARM64_INS_INVALID", <<>>, "INVALID")

DecodeWord(w) ==
    LET Rd == RegOp(GPR(w.sf, w.rd))
        Rn == RegOp(GPR(w.sf, w.rn))
        Rm == RegOp(GPR(w.sf, w.rm))
    IN
    CASE w.cls = "CSINC" ->
           IF w.rn = w.rm /\ w.cond < 14
           THEN IF w.rn = 31
                THEN Insn("ARM64_INS_CSET", <<Rd>>, InvCondOf(w.cond))
                ELSE Insn("ARM64_INS_CINC", <<Rd, Rn>>, InvCondOf(w.cond))
           ELSE Insn("ARM64_INS_CSINC", <<Rd, Rn, Rm>>, CondOf(w.cond))
      [] w.cls = "UMADDL" ->
           LET Xd == RegOp(GPR(1, w.rd))
               Wn == RegOp(GPR(0, w.rn))
               Wm == RegOp(GPR(0, w.rm))
           IN  IF w.ra = 31
               THEN Insn("ARM64_INS_UMULL", <<Xd, Wn, Wm>>, "INVALID")
               ELSE Insn("ARM64_INS_UMADDL",
                         <<Xd, Wn, Wm, RegOp(GPR(1, w.ra))>>, "INVALID")
      [] w.cls = "BFM" ->
           IF w.imms < w.immr
           THEN Insn("ARM64_INS_BFI",
                     <<Rd, Rn, ImmOp(RegBits(w.sf) - w.immr), ImmOp(w.imms + 1)>>,
                     "INVALID")
           ELSE Insn("ARM64_INS_BFXIL",
                     <<Rd, Rn, ImmOp(w.immr), ImmOp(w.imms - w.immr + 1)>>,
                     "INVALID")
      [] w.cls = "EXTR" ->
           IF w.rn = w.rm
           THEN Insn("ARM64_INS_ROR", <<Rd, Rn, ImmOp(w.imms)>>, "INVALID")
           ELSE Insn("ARM64_INS_EXTR", <<Rd, Rn, Rm, ImmOp(w.imms)>>, "INVALID")
      [] w.cls = "RORV" -> Insn("ARM64_INS_ROR", <<Rd, Rn, Rm>>, "INVALID")
      [] w.cls = "ADD" -> Insn("ARM64_INS_ADD", <<Rd, Rn, Rm>>, "INVALID")
      [] OTHER -> NoInsn

Decodable(w) == w.cls # "UNALLOCATED"

\* Number of instructions cs_disasm decodes from the first length bytes of
\* data with count 0 (all that decode, stopping at the first that does not).
RECURSIVE DisasmCount(_, _)
DisasmCount(data, length) ==
    IF length < 4 \/ data = <<>> \/ ~Decodable(Head(data))
    THEN 0
    ELSE 1 + DisasmCount(Tail(data), length - 4)

\* cs_disasm(handle, data, len, addr, 0, &instr) on an engine that opened.
cs_disasm(data, length) ==
    LET n == DisasmCount(data, length)
    IN  [count |-> n, insn |-> [i \in 1..n |-> DecodeWord(data[i])]]

(***************************************************************************)
(* The base architecture's decode-to-IL, the delegate of the hook.  It     *)
(* needs a whole instruction word, reports its size and appends its own IL.*)
(***************************************************************************)
BaseGetInstructionLowLevelIL(data, addr, length, f) ==
    IF length < 4 \/ ~Decodable(Head(data))
    THEN [il |-> AddInstruction(f, [op |-> "Undefined"]),
          len |-> length, ret |-> FALSE]
    ELSE [il |-> AddInstruction(f, [op |-> "Base", word |-> Head(data),
                                    addr |-> addr]),
          len |-> 4, ret |-> TRUE]

(***************************************************************************)
(* The hook                                                                *)
(***************************************************************************)
Supported == {"ARM64_INS_CSINC", "ARM64_INS_UMULL", "ARM64_INS_CINC",
              "ARM64_INS_BFI", "ARM64_INS_ROR"}

\* The switch on instr->id.
Dispatch(instr, f, ord) ==
    CASE instr.id = "ARM64_INS_CSINC" -> LiftCSINC(instr, f, ord)
      [] instr.id = "ARM64_INS_UMULL" -> LiftUMULL(instr, f)
      [] instr.id = "ARM64_INS_CINC" -> LiftCINC(instr, f)
      [] instr.id = "ARM64_INS_BFI" -> LiftBFI(instr, f)
      [] instr.id = "ARM64_INS_ROR" -> LiftROR(instr, f)
      [] OTHER -> Reject(f)

\* A size that is not the decoded record's.
InstrSizeHalved(instr) == instr.size \div 2

\* len = instr->size, instr a record the decoder produced.
InstrSize(instr) == instr.size

\* What reading instr->size can do when the decoder produced no record
\* (instr was never assigned): fault, or yield whatever is there.
UninitialisedRead == [fault : BOOLEAN, size : {0, 4}]

\* bool GetInstructionLowLevelIL(data, addr, len, il)
GetInstructionLowLevelIL(data, addr, lenIn, ord, ub) ==
    LET dis == cs_disasm(data, lenIn)
        count == dis.count
        instr == IF count > 0 THEN dis.insn[1] ELSE NoInsn
        lifted == IF count > 0 THEN Dispatch(instr, il, ord) ELSE Reject(il)
        supported == lifted.ok
        len1 == IF count > 0 THEN InstrSize(instr) ELSE ub.size
        call == [op |-> "GetInstructionLowLevelIL", data |-> data,
                 addr |-> addr, lenIn |-> lenIn, count |-> count,
                 instr |-> instr, supported |-> supported,
                 lifted |-> lifted.il, before |-> il,
                 sizeFrom |-> IF count > 0 THEN "record" ELSE "no record",
                 baseCalls |-> 0]
    IN  /\ pc = "idle"
        /\ IF count = 0 /\ ub.fault
           THEN /\ pc' = "faulted"
                /\ last' = call
                /\ UNCHANGED <<il, len, ret>>
           ELSE /\ pc' = "returned"
                /\ IF ~supported
                   THEN LET base == BaseGetInstructionLowLevelIL(
                                        data, addr, len1, lifted.il)
                        IN  /\ il' = base.il
                            /\ len' = base.len
                            /\ ret' = base.ret
                            /\ last' = [call EXCEPT !.baseCalls = 1]
                   ELSE /\ il' = lifted.il
                        /\ len' = len1
                        /\ ret' = TRUE
                        /\ last' = call
        /\ UNCHANGED <<condVars, threadVars>>

(***************************************************************************)
(* Inputs of Spec                                                          *)
(***************************************************************************)
\* Immediate fields tried in instruction words of each register size.
ImmFields(sf) == IF sf = 1 THEN {0, 1, 4, 8, 31, 32, 63} ELSE {0, 1, 4, 8, 31}

Words ==
    {Word("CSINC", sf, rd, rn, rm, cond, 0, 0, 0) :
        sf \in {0, 1}, rd \in {0, 1}, rn \in {0, 1, 31}, rm \in {0, 1, 31},
        cond \in 0..15}
    \cup {Word("UMADDL", 1, rd, rn, rm, 0, 0, 0, ra) :
        rd \in {0, 1}, rn \in {0, 1}, rm \in {0, 1}, ra \in {0, 31}}
    \cup UNION {{Word("BFM", sf, rd, rn, 0, 0, immr, imms, 0) :
        rd \in {0, 1}, rn \in {0, 1},
        immr \in ImmFields(sf), imms \in ImmFields(sf)} : sf \in {0, 1}}
    \cup UNION {{Word("EXTR", sf, rd, rn, rm, 0, 0, imms, 0) :
        rd \in {0, 1}, rn \in {0, 1}, rm \in {0, 1},
        imms \in ImmFields(sf)} : sf \in {0, 1}}
    \cup {Word(cls, sf, rd, rn, rm, 0, 0, 0, 0) :
        cls \in {"RORV", "ADD"}, sf \in {0, 1},
        rd \in {0, 1}, rn \in {0, 1}, rm \in {0, 1}}
    \cup {Word("UNALLOCATED", 0, 0, 0, 0, 0, 0, 0, 0)}

\* What may follow the first word of a buffer.
TailWords == {Word("UNALLOCATED", 0, 0, 0, 0, 0, 0, 0, 0),
              Word("ADD", 1, 0, 1, 1, 0, 0, 0, 0)}

\* Buffers with the number of bytes the host says are readable.
Requests ==
    {[data |-> <<w>>, len |-> n] : w \in Words, n \in {0, 2, 4}}
    \cup {[data |-> <<w, v>>, len |-> 8] : w \in Words, v \in TailWords}

Addrs == {4096, 4100}

\* Registers of three widths for instructions handed to a lifter directly.
LiftRegs == {"ARM64_REG_W0", "ARM64_REG_X1", "ARM64_REG_H2"}

RegWidth(reg) == GetRegisterInfoSize(RegOf(reg))

\* Operand lists of n registers.
RegOps(n) == {[i \in 1..n |-> RegOp(r[i])] : r \in [1..n -> LiftRegs]}

CSINCInsns ==
    {Insn("ARM64_INS_CSINC", ops, cc) : ops \in RegOps(3), cc \in arm64_cc}
    \cup {Insn("ARM64_INS_CSINC", ops, cc) :
            ops \in {<<>>, <<RegOp("ARM64_REG_W0"), RegOp("ARM64_REG_W0")>>,
                     <<RegOp("ARM64_REG_X1"), RegOp("ARM64_REG_X1"),
                       RegOp("ARM64_REG_X1"), RegOp("ARM64_REG_X1")>>},
            cc \in {"EQ", "AL"}}

UMULLInsns ==
    {Insn("ARM64_INS_UMULL", ops, "INVALID") :
        ops \in RegOps(3) \cup RegOps(2)
                \cup {<<>>, <<RegOp("ARM64_REG_X1"), RegOp("ARM64_REG_W0"),
                              RegOp("ARM64_REG_W0"), RegOp("ARM64_REG_X1")>>}}

CINCInsns ==
    {Insn("ARM64_INS_CINC", ops, cc) : ops \in RegOps(2), cc \in arm64_cc}
    \cup {Insn("ARM64_INS_CINC", ops, cc) :
            ops \in {<<>>, <<RegOp("ARM64_REG_W0")>>}
                    \cup {o \in RegOps(3) : o[1].reg = o[2].reg},
            cc \in {"NE", "NV"}}

\* Bitfield positions <<lsb, width>> that fit a register of the given bits.
BitFields(bits) ==
    {p \in (0..(bits - 1)) \X (1..bits) : p[1] + p[2] <= bits}

BFIInsns ==
    UNION {{Insn("ARM64_INS_BFI",
                 <<RegOp(rd), RegOp(rn), ImmOp(p[1]), ImmOp(p[2])>>, "INVALID") :
              rn \in LiftRegs, p \in BitFields(8 * RegWidth(rd))} :
           rd \in LiftRegs}
    \cup {Insn("ARM64_INS_BFI", ops, "INVALID") :
            ops \in {<<>>, <<RegOp("ARM64_REG_W0"), RegOp("ARM64_REG_W0"), ImmOp(4)>>}}

RORInsns ==
    {Insn("ARM64_INS_ROR", <<RegOp(rd), RegOp(rn), o>>, "INVALID") :
        rd \in LiftRegs, rn \in LiftRegs,
        o \in {RegOp("ARM64_REG_W0"), RegOp("ARM64_REG_X1"),
               ImmOp(0), ImmOp(5), ImmOp(63), FpOp}}
    \cup {Insn("ARM64_INS_ROR", ops, "INVALID") :
            ops \in RegOps(2) \cup {<<>>}}

\* An IL function that already holds p instructions.
PriorIL(p) ==
    [instrs |-> [i \in 1..p |-> [op |-> "Prior", n |-> i]],
     labels |-> {}, nexpr |-> p]

(***************************************************************************)
(* Spec: one call on an IL function                                        *)
(***************************************************************************)
NoCall == [op |-> "none"]

InitCond == translated = <<>>

InitThreadsIdle ==
    /\ cell = <<>>
    /\ scratch = <<>>
    /\ thr = <<>>
    /\ registered = FALSE
    /\ nextHandle = 0

Init ==
    /\ il \in {PriorIL(p) : p \in 0..MaxPrior}
    /\ len = 0
    /\ ret = FALSE
    /\ pc = "idle"
    /\ last = NoCall
    /\ InitCond
    /\ InitThreadsIdle

\* A lifter called on a decoded instruction.
LifterCall(name, instr, ord, r) ==
    /\ pc = "idle"
    /\ pc' = "returned"
    /\ il' = r.il
    /\ ret' = r.ok
    /\ last' = [op |-> name, instr |-> instr, before |-> il, ord |-> ord]
    /\ UNCHANGED <<len, condVars, threadVars>>

CallLiftCSINC ==
    /\ pc = "idle"
    /\ \E instr \in CSINCInsns, ord \in {0, 1} :
        LifterCall("LiftCSINC", instr, ord, LiftCSINC(instr, il, ord))

CallLiftUMULL ==
    /\ pc = "idle"
    /\ \E instr \in UMULLInsns :
        LifterCall("LiftUMULL", instr, 0, LiftUMULL(instr, il))

CallLiftCINC ==
    /\ pc = "idle"
    /\ \E instr \in CINCInsns :
        LifterCall("LiftCINC", instr, 0, LiftCINC(instr, il))

CallLiftBFI ==
    /\ pc = "idle"
    /\ \E instr \in BFIInsns :
        LifterCall("LiftBFI", instr, 0, LiftBFI(instr, il))

CallLiftROR ==
    /\ pc = "idle"
    /\ \E instr \in RORInsns :
        LifterCall("LiftROR", instr, 0, LiftROR(instr, il))

\* The argument order matters only where LiftCSINC builds two argument
\* expressions of which one becomes the destination; the uninitialised read
\* happens only when nothing was decoded.
OrdChoices(data, length) ==
    LET dis == cs_disasm(data, length)
    IN  IF /\ dis.count > 0
           /\ dis.insn[1].id = "ARM64_INS_CSINC"
           /\ Unconditional(dis.insn[1].cc)
        THEN {0, 1} ELSE {0}

UbChoices(data, length) ==
    IF DisasmCount(data, length) = 0
    THEN UninitialisedRead ELSE {[fault |-> FALSE, size |-> 0]}

CallGetInstructionLowLevelIL ==
    /\ pc = "idle"
    /\ \E rq \in Requests, addr \in Addrs :
         \E ord \in OrdChoices(rq.data, rq.len), ub \in UbChoices(rq.data, rq.len) :
            GetInstructionLowLevelIL(rq.data, addr, rq.len, ord, ub)

Next ==
    \/ CallLiftCSINC
    \/ CallLiftUMULL
    \/ CallLiftCINC
    \/ CallLiftBFI
    \/ CallLiftROR
    \/ CallGetInstructionLowLevelIL

Spec == Init /\ [][Next]_vars

(***************************************************************************)
(* Properties of Spec                                                      *)
(***************************************************************************)
HookOp == "GetInstructionLowLevelIL"
LifterOps == {"LiftCSINC", "LiftUMULL", "LiftCINC", "LiftBFI", "LiftROR"}

Arity(name) ==
    CASE name = "LiftCSINC" -> 3
      [] name = "LiftUMULL" -> 3
      [] name = "LiftCINC" -> 2
      [] name = "LiftBFI" -> 4
      [] name = "LiftROR" -> 3

\* The instructions a call appended to the function it started from.
Emitted(before, after) ==
    SubSeq(after.instrs, Len(before.instrs) + 1, Len(after.instrs))

\* Labels an instruction branches to.
Targets(e) ==
    CASE e.op = "If" -> {e.t, e.f}
      [] e.op = "Goto" -> {e.label}
      [] OTHER -> {}

\* after extends before by at least one instruction, and every label the new
\* instructions branch to has been marked at a position of the function.
Complete(before, after) ==
    /\ Len(after.instrs) > Len(before.instrs)
    /\ SubSeq(after.instrs, 1, Len(before.instrs)) = before.instrs
    /\ before.labels \subseteq after.labels
    /\ \A i \in 1..Len(Emitted(before, after)) :
         \A t \in Targets(Emitted(before, after)[i]) :
            \E l \in after.labels \ before.labels :
               /\ l.name = t
               /\ l.at \in Len(before.instrs)..Len(after.instrs)

\* C1: whenever the hook is called, it returns (does not fault), and the
\* length it leaves is the decoded record's size when a record was decoded
\* and lifted, and otherwise the length the default path reports for the
\* request; it never depends on a record the decoder did not produce.
C1_LengthFromDecoderReport ==
    last.op = HookOp =>
        /\ pc = "returned"
        /\ last.count > 0 /\ last.supported => len = last.instr.size
        /\ ~last.supported =>
             len = BaseGetInstructionLowLevelIL(
                       last.data, last.addr, last.lenIn, last.before).len

\* C2: every lifter is all-or-nothing.  A call that returns false (as every
\* call with an operand count other than the mnemonic's arity does) leaves
\* the IL function exactly as it was; a call that returns true has appended
\* a complete sequence.  The same holds of the lifter the hook dispatched to.
C2_LiftersAllOrNothing ==
    /\ last.op \in LifterOps =>
         /\ last.instr.op_count # Arity(last.op) => ~ret
         /\ ~ret => il = last.before
         /\ ret => Complete(last.before, il)
    /\ last.op = HookOp =>
         /\ ~last.supported => last.lifted = last.before
         /\ last.supported => Complete(last.before, last.lifted)

\* A lifter that rejected an instruction of the right operand count, on a
\* function that already held instructions.
C2_Witness ==
    /\ pc = "returned"
    /\ last.op = "LiftCINC"
    /\ last.instr.op_count = 2
    /\ last.instr.cc = "INVALID"
    /\ ~ret
    /\ Len(last.before.instrs) > 0

\* C3: when the bytes decode to a mnemonic the extension does not handle, or
\* the matching lifter rejects, the hook leaves the IL, the length and the
\* result that the base decode-to-IL leaves when called directly on the
\* request, having called it once and emitted nothing before it.
C3_FallbackTransparent ==
    (/\ last.op = HookOp
     /\ pc = "returned"
     /\ last.count > 0
     /\ (last.instr.id \notin Supported \/ ~last.supported)) =>
        LET base == BaseGetInstructionLowLevelIL(
                        last.data, last.addr, last.lenIn, last.before)
        IN  /\ il = base.il
            /\ len = base.len
            /\ ret = base.ret
            /\ last.baseCalls = 1
            /\ last.lifted = last.before

\* The hook fell back on a decoded instruction it does not handle, with more
\* bytes readable than the instruction needs.
C3_Witness ==
    /\ pc = "returned"
    /\ last.op = HookOp
    /\ last.count > 0
    /\ last.instr.id = "ARM64_INS_BFXIL"
    /\ last.lenIn > last.instr.size
    /\ last.baseCalls = 1
    /\ ret

\* The register write in the true branch of a lifter's conditional form:
\* the instruction after the branch, with the same operands and any
\* condition that is neither invalid nor unconditional.
TrueBranchWrite(name, instr, before) ==
    LET cond == [instr EXCEPT !.cc = "EQ"]
        r == IF name = "LiftCSINC" THEN LiftCSINC(cond, before, 0)
                                   ELSE LiftCINC(cond, before)
    IN  Emitted(before, r.il)[2]

\* C7: for the condition codes always and never, LiftCSINC and LiftCINC emit
\* exactly one instruction, a register write equal (destination register,
\* size, source expression) to the register write of the true branch of the
\* same lifter's conditional form, and no branch, label or flag condition.
C7_UnconditionalIsTrueBranch ==
    (/\ last.op \in {"LiftCSINC", "LiftCINC"}
     /\ ret
     /\ Unconditional(last.instr.cc)) =>
        /\ Emitted(last.before, il) =
             <<TrueBranchWrite(last.op, last.instr, last.before)>>
        /\ il.labels = last.before.labels

\* The bits lsb .. lsb + width - 1.
Field(lsb, width) == {i \in 0..63 : lsb <= i /\ i < lsb + width}

\* C8: for an accepted bitfield insert on registers of s bytes, s in {4, 8},
\* the emitted instruction is Rd = (Rd & ~mask) | ((Rn << lsb) & mask) with
\* mask the width one-bits from bit lsb and ~mask its complement within the
\* register's 8*s bits, neither with a bit set outside them.
C8_BFIMaskWithinRegister ==
    (/\ last.op = "LiftBFI"
     /\ ret
     /\ RegWidth(last.instr.operands[1].reg) \in {4, 8}
     /\ RegWidth(last.instr.operands[2].reg)
          = RegWidth(last.instr.operands[1].reg)) =>
        LET s == RegWidth(last.instr.operands[1].reg)
            Rd == RegOf(last.instr.operands[1].reg)
            Rn == RegOf(last.instr.operands[2].reg)
            lsb == last.instr.operands[3].imm
            mask == Field(lsb, last.instr.operands[4].imm)
        IN  Emitted(last.before, il) =
              <<SetRegister(s, Rd,
                  Or(s, And(s, Register(s, Rd), Const(s, Not(mask, 8 * s))),
                        And(s, ShiftLeft(s, Register(s, Rn), Const(1, Bits(lsb))),
                               Const(s, mask))))>>

\* C9: LiftBFI rejects, emitting nothing, every 4-operand instruction whose
\* Rd and Rn widths differ or whose Rd width is neither 4 nor 8.
C9_BFIRejectsWidths ==
    (/\ last.op = "LiftBFI"
     /\ last.instr.op_count = 4
     /\ ~(/\ RegWidth(last.instr.operands[1].reg)
               = RegWidth(last.instr.operands[2].reg)
          /\ RegWidth(last.instr.operands[1].reg) \in {4, 8})) =>
        /\ ~ret
        /\ il = last.before

\* C10: LiftCSINC accepts a 3-operand instruction exactly when its condition
\* code is valid and Rd's width equals Rn's and Rn's equals Rm's; otherwise
\* it returns false and emits nothing.
C10_CSINCRejectsWidths ==
    (/\ last.op = "LiftCSINC"
     /\ last.instr.op_count = 3) =>
        /\ ret <=> (/\ last.instr.cc # "INVALID"
                    /\ RegWidth(last.instr.operands[1].reg)
                         = RegWidth(last.instr.operands[2].reg)
                    /\ RegWidth(last.instr.operands[2].reg)
                         = RegWidth(last.instr.operands[3].reg))
        /\ ~ret => il = last.before

(***************************************************************************)
(* SpecCond: the condition-code translator.  translated holds the two most *)
(* recent translations, oldest first.                                      *)
(***************************************************************************)
InitLiftIdle ==
    /\ il = PriorIL(0)
    /\ len = 0
    /\ ret = FALSE
    /\ pc = "idle"
    /\ last = NoCall

InitC ==
    /\ translated = <<>>
    /\ InitLiftIdle
    /\ InitThreadsIdle

CallLiftCondition ==
    \E condition \in arm64_cc :
        /\ translated' =
             (IF Len(translated) < 2 THEN translated ELSE Tail(translated))
             \o <<[cc |-> condition, fc |-> LiftCondition(condition)]>>
        /\ UNCHANGED <<liftVars, threadVars>>

NextC == CallLiftCondition

SpecCond == InitC /\ [][NextC]_vars

\* The host's flag conditions named by the standard table.
HostFlagConditions ==
    {"LLFC_E", "LLFC_NE", "LLFC_UGE", "LLFC_ULT", "LLFC_NEG", "LLFC_POS",
     "LLFC_O", "LLFC_NO", "LLFC_UGT", "LLFC_ULE", "LLFC_SGE", "LLFC_SLT",
     "LLFC_SGT", "LLFC_SLE"}

Branching(cc) == cc \notin {"INVALID", "AL", "NV"}

\* C6: every condition code other than invalid, always and never is
\* translated to the flag condition of the standard table, no two of them to
\* the same one; invalid, always and never are translated to no flag
\* condition.
C6_ConditionTable ==
    /\ \A i \in 1..Len(translated) :
         IF Branching(translated[i].cc)
         THEN translated[i].fc = StandardCondition(translated[i].cc)
         ELSE translated[i].fc \notin HostFlagConditions
    /\ \A i, j \in 1..Len(translated) :
         (/\ Branching(translated[i].cc)
          /\ Branching(translated[j].cc)
          /\ translated[i].fc = translated[j].fc) =>
             translated[i].cc = translated[j].cc

(***************************************************************************)
(* SpecThreads: the decoding engine of each thread, plugin activation, and *)
(* the hook running on several threads.                                    *)
(*                                                                         *)
(* cell[k] is one Disassembler instance: whether it has been constructed   *)
(* or destroyed, mIsOK and mCapstone (0 when cs_open failed).  scratch[h]  *)
(* is the mutable state inside engine handle h: the request it is working  *)
(* on.  The hook is split where the engine is entered and left, so that    *)
(* calls of different threads interleave.                                  *)
(***************************************************************************)
Loader == "loader"
Threads == {"loader", "w1", "w2"}
Handles == 1..Cardinality(Threads)

\* One instance for the whole process.
SharedDisassembler(t) == Loader

\* static thread_local Disassembler disassembler: the instance thread t names.
Disassembler(t) == t

\* The request each thread lifts: buffers of different threads are disjoint.
ThreadRequests(t) ==
    CASE t = "loader" ->
           {[data |-> <<Word("ADD", 1, 0, 1, 1, 0, 0, 0, 0)>>, len |-> 4]}
      [] t = "w1" ->
           {[data |-> <<Word("CSINC", 0, 0, 1, 31, 14, 0, 0, 0)>>, len |-> 4],
            [data |-> <<Word("UNALLOCATED", 0, 0, 0, 0, 0, 0, 0, 0)>>, len |-> 4]}
      [] t = "w2" ->
           {[data |-> <<Word("RORV", 1, 1, 0, 1, 0, 0, 0, 0),
                        Word("BFM", 0, 0, 1, 0, 0, 8, 4, 0)>>, len |-> 8],
            [data |-> <<Word("UMADDL", 1, 0, 1, 1, 0, 0, 0, 31)>>, len |-> 2]}

NoRequest == [data |-> <<>>, len |-> 0]

NotBuilt == [state |-> "none", ok |-> TRUE, handle |-> 0]

IdleThread ==
    [pc |-> "idle", ended |-> FALSE, rq |-> NoRequest, using |-> "nobody",
     count |-> 0, instr |-> NoInsn, calls |-> 0]

InitT ==
    /\ cell = [k \in Threads |-> NotBuilt]
    /\ scratch = [h \in Handles |-> [state |-> "unopened", rq |-> NoRequest]]
    /\ thr = [t \in Threads |-> IdleThread]
    /\ registered = FALSE
    /\ nextHandle = 1
    /\ InitLiftIdle
    /\ InitCond

Faulted == \E t \in Threads : thr[t].pc = "faulted"

\* Disassembler::Disassembler(): cs_open gives a new handle or fails.
Construct(opened) ==
    IF opened
    THEN [state |-> "live", ok |-> TRUE, handle |-> nextHandle]
    ELSE [state |-> "live", ok |-> FALSE, handle |-> 0]

\* The instance thread t reaches through `disassembler`, constructed on the
\* thread's first use of it.
Touch(t, opened) ==
    IF cell[Disassembler(t)].state = "none"
    THEN Construct(opened)
    ELSE cell[Disassembler(t)]

TouchEffect(t, opened) ==
    /\ cell' = [cell EXCEPT ![Disassembler(t)] = Touch(t, opened)]
    /\ nextHandle' = IF Touch(t, opened).handle = nextHandle
                     THEN nextHandle + 1 ELSE nextHandle

\* bool CorePluginInit(), run once by the loading thread.
CorePluginInit ==
    /\ ~Faulted
    /\ thr[Loader].pc = "idle" /\ thr[Loader].calls = 0 /\ ~thr[Loader].ended
    /\ ~registered
    /\ cell[Disassembler(Loader)].state = "none"
    /\ \E opened \in BOOLEAN :
         /\ TouchEffect(Loader, opened)
         /\ registered' = Touch(Loader, opened).ok
    /\ UNCHANGED <<scratch, thr, liftVars, condVars>>

\* GetInstructionLowLevelIL on thread t, up to the point where cs_disasm has
\* taken the request into the engine.
HookEnter(t) ==
    /\ ~Faulted
    /\ registered
    /\ thr[t].pc = "idle" /\ ~thr[t].ended
    /\ \E rq \in ThreadRequests(t), opened \in BOOLEAN :
         LET d == Touch(t, opened)
         IN  /\ TouchEffect(t, opened)
             /\ scratch' = IF d.handle = 0 THEN scratch
                           ELSE [scratch EXCEPT ![d.handle] =
                                   [state |-> "open", rq |-> rq]]
             /\ thr' = [thr EXCEPT ![t] =
                          [@ EXCEPT !.pc = "disasm", !.rq = rq,
                                    !.using = Disassembler(t)]]
    /\ UNCHANGED <<registered, liftVars, condVars>>

\* cs_disasm returns: the engine decodes what its state holds; a null
\* handle decodes nothing.
HookDecoded(t) ==
    /\ ~Faulted
    /\ thr[t].pc = "disasm"
    /\ LET h == cell[thr[t].using].handle
           held == IF h = 0 \/ scratch[h].state # "open"
                   THEN NoRequest ELSE scratch[h].rq
           dis == cs_disasm(held.data, held.len)
       IN  thr' = [thr EXCEPT ![t] =
                     [@ EXCEPT !.pc = "lift", !.count = dis.count,
                               !.instr = IF dis.count > 0 THEN dis.insn[1]
                                         ELSE NoInsn]]
    /\ UNCHANGED <<cell, scratch, registered, nextHandle, liftVars, condVars>>

\* The rest of the call: the lifter (cs_reg_name on the thread's handle),
\* len = instr->size, the fallback, the return.  When nothing was decoded
\* the read of instr->size may fault.
HookReturn(t) ==
    /\ ~Faulted
    /\ thr[t].pc = "lift"
    /\ \E fault \in IF thr[t].count = 0 THEN BOOLEAN ELSE {FALSE} :
         thr' = [thr EXCEPT ![t] =
                   [@ EXCEPT !.pc = IF fault THEN "faulted" ELSE "idle",
                             !.calls = 1]]
    /\ UNCHANGED <<cell, scratch, registered, nextHandle, liftVars, condVars>>

\* Thread t ends: its instance, if constructed, is destroyed (cs_close).
ThreadExit(t) ==
    /\ ~Faulted
    /\ thr[t].pc = "idle" /\ ~thr[t].ended
    /\ thr' = [thr EXCEPT ![t] = [@ EXCEPT !.ended = TRUE]]
    /\ LET d == cell[Disassembler(t)]
       IN  IF d.state = "live"
           THEN /\ cell' = [cell EXCEPT ![Disassembler(t)] =
                              [@ EXCEPT !.state = "destroyed"]]
                /\ scratch' = IF d.handle = 0 THEN scratch
                              ELSE [scratch EXCEPT ![d.handle] =
                                      [state |-> "closed", rq |-> NoRequest]]
           ELSE UNCHANGED <<cell, scratch>>
    /\ UNCHANGED <<registered, nextHandle, liftVars, condVars>>

NextT ==
    \/ CorePluginInit
    \/ \E t \in Threads : HookEnter(t)
    \/ \E t \in Threads : HookDecoded(t)
    \/ \E t \in Threads : HookReturn(t)
    \/ \E t \in Threads : ThreadExit(t)

SpecThreads == InitT /\ [][NextT]_vars

InEngine(t) == thr[t].pc \in {"disasm", "lift"}

\* What thread t's request decodes to on its own engine, run alone.
Sequential(t) ==
    IF cell[t].ok THEN cs_disasm(thr[t].rq.data, thr[t].rq.len)
    ELSE cs_disasm(<<>>, 0)

\* C4: a thread inside the hook uses its own engine instance, constructed
\* and not destroyed; no two threads inside the hook use the same instance
\* or the same opened handle; what a thread decodes is what its request
\* decodes to when run alone; and the instance of a thread that has ended is
\* no longer live.
C4_EngineIsThreadPrivate ==
    /\ \A t \in Threads :
         InEngine(t) =>
            /\ thr[t].using = t
            /\ cell[thr[t].using].state = "live"
    /\ \A t, u \in Threads :
         (InEngine(t) /\ InEngine(u) /\ t # u) =>
            /\ thr[t].using # thr[u].using
            /\ (\/ cell[thr[t].using].handle = 0
                \/ cell[thr[t].using].handle # cell[thr[u].using].handle)
    /\ \A t \in Threads :
         (\/ thr[t].pc \in {"lift", "faulted"}
          \/ (thr[t].calls > 0 /\ thr[t].pc = "idle")) =>
            /\ thr[t].count = Sequential(t).count
            /\ thr[t].count > 0 => thr[t].instr = Sequential(t).insn[1]
    /\ \A t \in Threads :
         thr[t].ended => cell[t].state # "live"

\* Two worker threads inside the hook at once, each with an opened engine,
\* one of them having decoded its request.
C4_Witness ==
    /\ thr["w1"].pc = "disasm"
    /\ thr["w2"].pc = "lift"
    /\ thr["w2"].count > 0
    /\ cell["w1"].ok /\ cell["w2"].ok
    /\ thr[Loader].ended

\* C5: the extension is registered only when the engine checked at
\* activation was constructed, and every thread inside the hook decodes on
\* an engine whose construction succeeded.
C5_NoFailedEngineServes ==
    /\ registered => cell[Loader].state # "none" /\ cell[Loader].ok
    /\ \A t \in Threads : InEngine(t) => cell[thr[t].using].ok

====
